---- MODULE Spec2Model ----
(***************************************************************************)
(* NSE ticker search service (app/services.py) and the builder of its      *)
(* catalog file (create_search_json.py).                                   *)
(*                                                                         *)
(* A Python str is a sequence of one-character strings.  A JSON object is  *)
(* a function on its keys; the two index objects are sequences of entries  *)
(* because the code iterates them in insertion order.  None is <<>> and a  *)
(* value v that may be None is <<v>>.                                      *)
(***************************************************************************)
EXTENDS Integers, Sequences, FiniteSets, TLC

VARIABLES file, _json_data, _nse_stocks_cache, _cache_timestamp, now, call, probe,
          inflight

vars == <<file, _json_data, _nse_stocks_cache, _cache_timestamp, now, call, probe,
          inflight>>

None == <<>>
Some(v) == <<v>>

\* ------------------------------------------------------------------ str
UpperChars == <<"A", "B", "C", "D", "E", "F", "G", "H", "I", "J", "K", "L", "M", "N", "O", "P", "Q", "R", "S", "T", "U", "V", "W", "X", "Y", "Z">>
LowerChars == <<"a", "b", "c", "d", "e", "f", "g", "h", "i", "j", "k", "l", "m", "n", "o", "p", "q", "r", "s", "t", "u", "v", "w", "x", "y", "z">>
Whitespace == {" "}

\* str.lower() / str.upper(), one character
ToLower == [c \in {UpperChars[i] : i \in DOMAIN UpperChars} |->
              LowerChars[CHOOSE i \in DOMAIN UpperChars : UpperChars[i] = c]]
ToUpper == [c \in {LowerChars[i] : i \in DOMAIN LowerChars} |->
              UpperChars[CHOOSE i \in DOMAIN LowerChars : LowerChars[i] = c]]
LowerChar(c) == IF c \in DOMAIN ToLower THEN ToLower[c] ELSE c
UpperChar(c) == IF c \in DOMAIN ToUpper THEN ToUpper[c] ELSE c
Lower(s) == [i \in 1..Len(s) |-> LowerChar(s[i])]
Upper(s) == [i \in 1..Len(s) |-> UpperChar(s[i])]

\* str.strip(): leading and trailing whitespace removed
Strip(s) ==
    LET keep == {i \in 1..Len(s) : s[i] \notin Whitespace}
    IN  IF keep = {} THEN <<>>
        ELSE SubSeq(s, CHOOSE i \in keep : \A j \in keep : i <= j,
                       CHOOSE i \in keep : \A j \in keep : j <= i)

\* q in s, for two str
Contains(q, s) ==
    \E i \in 0..(Len(s) - Len(q)) : \A j \in 1..Len(q) : s[i + j] = q[j]

\* ------------------------------------------------- get_fallback_stocks
get_fallback_stocks ==
    <<
       [symbol |-> <<"R","E","L","I","A","N","C","E">>,
        name |-> <<"R","e","l","i","a","n","c","e"," ","I","n","d","u","s","t","r","i","e","s"," ","L","i","m","i","t","e","d">>],
       [symbol |-> <<"T","C","S">>,
        name |-> <<"T","a","t","a"," ","C","o","n","s","u","l","t","a","n","c","y"," ","S","e","r","v","i","c","e","s"," ","L","i","m","i","t","e","d">>],
       [symbol |-> <<"H","D","F","C","B","A","N","K">>,
        name |-> <<"H","D","F","C"," ","B","a","n","k"," ","L","i","m","i","t","e","d">>],
       [symbol |-> <<"I","N","F","Y">>,
        name |-> <<"I","n","f","o","s","y","s"," ","L","i","m","i","t","e","d">>],
       [symbol |-> <<"I","C","I","C","I","B","A","N","K">>,
        name |-> <<"I","C","I","C","I"," ","B","a","n","k"," ","L","i","m","i","t","e","d">>],
       [symbol |-> <<"H","I","N","D","U","N","I","L","V","R">>,
        name |-> <<"H","i","n","d","u","s","t","a","n"," ","U","n","i","l","e","v","e","r"," ","L","i","m","i","t","e","d">>],
       [symbol |-> <<"S","B","I","N">>,
        name |-> <<"S","t","a","t","e"," ","B","a","n","k"," ","o","f"," ","I","n","d","i","a">>],
       [symbol |-> <<"B","H","A","R","T","I","A","R","T","L">>,
        name |-> <<"B","h","a","r","t","i"," ","A","i","r","t","e","l"," ","L","i","m","i","t","e","d">>],
       [symbol |-> <<"I","T","C">>,
        name |-> <<"I","T","C"," ","L","i","m","i","t","e","d">>],
       [symbol |-> <<"L","T">>,
        name |-> <<"L","a","r","s","e","n"," ","&"," ","T","o","u","b","r","o"," ","L","i","m","i","t","e","d">>],
       [symbol |-> <<"W","I","P","R","O">>,
        name |-> <<"W","i","p","r","o"," ","L","i","m","i","t","e","d">>],
       [symbol |-> <<"T","I","T","A","N">>,
        name |-> <<"T","i","t","a","n"," ","C","o","m","p","a","n","y"," ","L","i","m","i","t","e","d">>],
       [symbol |-> <<"H","C","L","T","E","C","H">>,
        name |-> <<"H","C","L"," ","T","e","c","h","n","o","l","o","g","i","e","s"," ","L","i","m","i","t","e","d">>],
       [symbol |-> <<"T","E","C","H","M">>,
        name |-> <<"T","e","c","h"," ","M","a","h","i","n","d","r","a"," ","L","i","m","i","t","e","d">>],
       [symbol |-> <<"A","X","I","S","B","A","N","K">>,
        name |-> <<"A","x","i","s"," ","B","a","n","k"," ","L","i","m","i","t","e","d">>],
       [symbol |-> <<"U","L","T","R","A","C","E","M","C","O">>,
        name |-> <<"U","l","t","r","a","t","e","c","h"," ","C","e","m","e","n","t"," ","L","i","m","i","t","e","d">>],
       [symbol |-> <<"A","S","I","A","N","P","A","I","N","T">>,
        name |-> <<"A","s","i","a","n"," ","P","a","i","n","t","s"," ","L","i","m","i","t","e","d">>],
       [symbol |-> <<"M","A","R","U","T","I">>,
        name |-> <<"M","a","r","u","t","i"," ","S","u","z","u","k","i"," ","I","n","d","i","a"," ","L","i","m","i","t","e","d">>],
       [symbol |-> <<"B","A","J","A","J","-","A","U","T","O">>,
        name |-> <<"B","a","j","a","j"," ","A","u","t","o"," ","L","i","m","i","t","e","d">>],
       [symbol |-> <<"D","R","R","E","D","D","Y">>,
        name |-> <<"D","r","."," ","R","e","d","d","y","'","s"," ","L","a","b","o","r","a","t","o","r","i","e","s"," ","L","i","m","i","t","e","d">>],
       [symbol |-> <<"C","O","A","L","I","N","D","I","A">>,
        name |-> <<"C","o","a","l"," ","I","n","d","i","a"," ","L","i","m","i","t","e","d">>],
       [symbol |-> <<"P","O","W","E","R","G","R","I","D">>,
        name |-> <<"P","o","w","e","r"," ","G","r","i","d"," ","C","o","r","p","o","r","a","t","i","o","n"," ","o","f"," ","I","n","d","i","a"," ","L","i","m","i","t","e","d">>],
       [symbol |-> <<"J","S","W","S","T","E","E","L">>,
        name |-> <<"J","S","W"," ","S","t","e","e","l"," ","L","i","m","i","t","e","d">>],
       [symbol |-> <<"T","A","T","A","S","T","E","E","L">>,
        name |-> <<"T","a","t","a"," ","S","t","e","e","l"," ","L","i","m","i","t","e","d">>],
       [symbol |-> <<"D","I","V","I","S","L","A","B">>,
        name |-> <<"D","i","v","i","'","s"," ","L","a","b","o","r","a","t","o","r","i","e","s"," ","L","i","m","i","t","e","d">>]
    >>

\* -------------------------------------- create_search_json.py (builder)
\* symbol_index[symbol] = idx: a key already present keeps its place
PutSymbol(symbol_index, symbol, idx) ==
    IF \E k \in DOMAIN symbol_index : symbol_index[k].key = symbol
    THEN [k \in DOMAIN symbol_index |->
            IF symbol_index[k].key = symbol
            THEN [key |-> symbol, id |-> idx] ELSE symbol_index[k]]
    ELSE Append(symbol_index, [key |-> symbol, id |-> idx])

\* name_index.setdefault(name_lower, []).append(idx)
PutName(name_index, name_lower, idx) ==
    IF \E k \in DOMAIN name_index : name_index[k].key = name_lower
    THEN [k \in DOMAIN name_index |->
            IF name_index[k].key = name_lower
            THEN [key |-> name_lower, ids |-> Append(name_index[k].ids, idx)]
            ELSE name_index[k]]
    ELSE Append(name_index, [key |-> name_lower, ids |-> <<idx>>])

\* the loop over the CSV rows, from row idx + 1 on
RECURSIVE BuildRows(_, _, _, _, _)
BuildRows(rows, idx, tickers, symbol_index, name_index) ==
    IF idx >= Len(rows)
    THEN [total       |-> Len(tickers),
          tickers     |-> tickers,
          symbolIndex |-> symbol_index,
          nameIndex   |-> name_index]
    ELSE LET symbol == Upper(rows[idx + 1].symbol)
             name   == rows[idx + 1].name
             ticker_obj == [id         |-> idx,
                            symbol     |-> symbol,
                            name       |-> name,
                            searchTerm |-> Lower(symbol \o <<" ">> \o name)]
         IN  BuildRows(rows, idx + 1,
                       Append(tickers, ticker_obj),
                       PutSymbol(symbol_index, symbol, idx),
                       PutName(name_index, Lower(name), idx))

create_search_json(rows) == BuildRows(rows, 0, <<>>, <<>>, <<>>)

\* ------------------------------------------------------ app/services.py
MaxResults == 10
MaxAccumulated == 20
PopularCount == 25
CacheTtl == 43200

\* Python truth value of an Optional[Dict]: None and {} are false
Truthy(json_data) == json_data # None /\ DOMAIN json_data[1] # {}

\* json_data.get(key, default)
Get(dict, key, default) == IF key \in DOMAIN dict THEN dict[key] ELSE default

\* [{"symbol": ticker["symbol"], "name": ticker["name"]} for ticker in tickers]
Pairs(tickers) ==
    [i \in 1..Len(tickers) |->
        [symbol |-> tickers[i].symbol, name |-> tickers[i].name]]

\* load_nse_json_data: the value returned and the _json_data left behind.
\* f is the file nse_tickers_search.json: absent, not parseable, or a JSON
\* object.
load_nse_json_data(json_data, f) ==
    IF json_data # None
    THEN [ret |-> json_data, json_data |-> json_data]
    ELSE IF f.state = "absent"
    THEN [ret |-> None, json_data |-> None]
    ELSE IF f.state = "unparsable"
    THEN [ret |-> None, json_data |-> None]
    ELSE [ret |-> f.data, json_data |-> f.data]

\* fetch_nse_equity_list returning nothing where it returns the default set
fetch_nse_equity_list_NoDefaults(st, f, t) ==
    IF /\ st.cache # None
       /\ st.timestamp # None
       /\ t - st.timestamp[1] < CacheTtl
    THEN [ret |-> st.cache[1], st |-> st, loads |-> 0]
    ELSE LET l == load_nse_json_data(st.json_data, f)
         IN  IF Truthy(l.ret) /\ "tickers" \in DOMAIN l.ret[1]
             THEN LET stocks == Pairs(l.ret[1].tickers)
                  IN  [ret   |-> stocks,
                       st    |-> [json_data |-> l.json_data,
                                  cache     |-> Some(stocks),
                                  timestamp |-> Some(t)],
                       loads |-> 1]
             ELSE [ret   |-> <<>>,
                   st    |-> [st EXCEPT !.json_data = l.json_data],
                   loads |-> 1]

\* fetch_nse_equity_list at time t: the list returned, the module state st
\* = [json_data, cache, timestamp] left behind and the number of loads made
fetch_nse_equity_list(st, f, t) ==
    IF /\ st.cache # None
       /\ st.timestamp # None
       /\ t - st.timestamp[1] < CacheTtl
    THEN [ret |-> st.cache[1], st |-> st, loads |-> 0]
    ELSE LET l == load_nse_json_data(st.json_data, f)
         IN  IF Truthy(l.ret) /\ "tickers" \in DOMAIN l.ret[1]
             THEN LET stocks == Pairs(l.ret[1].tickers)
                  IN  [ret   |-> stocks,
                       st    |-> [json_data |-> l.json_data,
                                  cache     |-> Some(stocks),
                                  timestamp |-> Some(t)],
                       loads |-> 1]
             ELSE [ret   |-> get_fallback_stocks,
                   st    |-> [st EXCEPT !.json_data = l.json_data],
                   loads |-> 1]

\* ScanList without the limit test inside the loop
RECURSIVE ScanListNoBreak(_, _, _, _)
ScanListNoBreak(query_lower, nse_stocks, i, results) ==
    IF i > Len(nse_stocks)
    THEN [results |-> results, scanned |-> Len(nse_stocks)]
    ELSE LET stock  == nse_stocks[i]
             symbol == Lower(Get(stock, "symbol", <<>>))
             name   == Lower(Get(stock, "name", <<>>))
         IN  IF Contains(query_lower, symbol) \/ Contains(query_lower, name)
             THEN ScanListNoBreak(query_lower, nse_stocks, i + 1,
                                  Append(results, stock))
             ELSE ScanListNoBreak(query_lower, nse_stocks, i + 1, results)

\* the loop of _search_in_list from stock i on: the results and the number
\* of stocks the loop has looked at when it ends
RECURSIVE ScanList(_, _, _, _)
ScanList(query_lower, nse_stocks, i, results) ==
    IF i > Len(nse_stocks)
    THEN [results |-> results, scanned |-> Len(nse_stocks)]
    ELSE LET stock  == nse_stocks[i]
             symbol == Lower(Get(stock, "symbol", <<>>))
             name   == Lower(Get(stock, "name", <<>>))
         IN  IF Contains(query_lower, symbol) \/ Contains(query_lower, name)
             THEN IF Len(results) + 1 >= MaxResults
                  THEN [results |-> Append(results, stock), scanned |-> i]
                  ELSE ScanList(query_lower, nse_stocks, i + 1,
                                Append(results, stock))
             ELSE ScanList(query_lower, nse_stocks, i + 1, results)

\* _search_in_list with an empty-query guard it does not have
SearchInListRunGuarded(query_lower, nse_stocks) ==
    IF nse_stocks = <<>> \/ query_lower = <<>>
    THEN [results |-> <<>>, scanned |-> 0]
    ELSE ScanList(query_lower, nse_stocks, 1, <<>>)

SearchInListRun(query_lower, nse_stocks) ==
    IF nse_stocks = <<>>
    THEN [results |-> <<>>, scanned |-> 0]
    ELSE ScanList(query_lower, nse_stocks, 1, <<>>)

_search_in_list(query_lower, nse_stocks) ==
    SearchInListRun(query_lower, nse_stocks).results

\* results[:n]
Take(s, n) == SubSeq(s, 1, IF Len(s) < n THEN Len(s) ELSE n)

\* sorted(results_set), for a set of integers
RECURSIVE Sorted(_)
Sorted(S) ==
    IF S = {} THEN <<>>
    ELSE LET m == CHOOSE x \in S : \A y \in S : x <= y
         IN  <<m>> \o Sorted(S \ {m})

\* tier 1: query_upper in symbol_index, ticker_id < len(tickers)
ExactMatch(query, tickers, symbol_index) ==
    LET query_upper == Upper(query)
        hit == {k \in DOMAIN symbol_index : symbol_index[k].key = query_upper}
    IN  IF hit = {} THEN {}
        ELSE LET ticker_id == symbol_index[CHOOSE k \in hit : TRUE].id
             IN  IF ticker_id < Len(tickers) THEN {ticker_id} ELSE {}

\* tier 2: the loop over symbol_index.items() from entry i on
RECURSIVE ScanSymbols(_, _, _, _)
ScanSymbols(query_lower, symbol_index, i, results_set) ==
    IF i > Len(symbol_index) THEN results_set
    ELSE IF Contains(query_lower, Lower(symbol_index[i].key))
    THEN LET added == results_set \cup {symbol_index[i].id}
         IN  IF Cardinality(added) >= MaxAccumulated
             THEN added
             ELSE ScanSymbols(query_lower, symbol_index, i + 1, added)
    ELSE ScanSymbols(query_lower, symbol_index, i + 1, results_set)

\* tier 3, inner loop: for ticker_id in ticker_ids, from the j-th on; the
\* break leaves this loop only
RECURSIVE AddIds(_, _, _)
AddIds(ticker_ids, j, results_set) ==
    IF j > Len(ticker_ids) THEN results_set
    ELSE LET added == results_set \cup {ticker_ids[j]}
         IN  IF Cardinality(added) >= MaxAccumulated
             THEN added
             ELSE AddIds(ticker_ids, j + 1, added)

\* tier 3, outer loop over name_index.items() from entry i on; the keys are
\* compared as stored
RECURSIVE ScanNames(_, _, _, _)
ScanNames(query_lower, name_index, i, results_set) ==
    IF i > Len(name_index) THEN results_set
    ELSE IF Contains(query_lower, name_index[i].key)
    THEN ScanNames(query_lower, name_index, i + 1,
                   AddIds(name_index[i].ids, 1, results_set))
    ELSE ScanNames(query_lower, name_index, i + 1, results_set)

\* the set results_set holds when the three tiers are done
Accumulate(query, query_lower, tickers, symbol_index, name_index) ==
    ScanNames(query_lower, name_index, 1,
        ScanSymbols(query_lower, symbol_index, 1,
            ExactMatch(query, tickers, symbol_index)))

\* the loop over sorted(results_set) from the i-th id on.  tickers[ticker_id]
\* with a negative ticker_id counts from the end of the list and raises
\* IndexError below -len(tickers)
RECURSIVE BuildResults(_, _, _, _, _)
BuildResults(tickers, ids, i, results, used) ==
    IF i > Len(ids)
    THEN [raised |-> FALSE, results |-> results, ids |-> used]
    ELSE LET ticker_id == ids[i]
         IN  IF ticker_id < Len(tickers)
             THEN IF ticker_id < 0 - Len(tickers)
                  THEN [raised |-> TRUE, results |-> results, ids |-> used]
                  ELSE LET ticker == IF ticker_id < 0
                                     THEN tickers[Len(tickers) + ticker_id + 1]
                                     ELSE tickers[ticker_id + 1]
                       IN  BuildResults(tickers, ids, i + 1,
                               Append(results, [symbol |-> ticker.symbol,
                                                name   |-> ticker.name]),
                               Append(used, ticker_id))
             ELSE BuildResults(tickers, ids, i + 1, results, used)

\* the indexed part without the final results[:10]
IndexedSearchNoLimit(query, query_lower, json_data) ==
    LET tickers      == Get(json_data, "tickers", <<>>)
        symbol_index == Get(json_data, "symbolIndex", <<>>)
        name_index   == Get(json_data, "nameIndex", <<>>)
        results_set  == Accumulate(query, query_lower, tickers,
                                   symbol_index, name_index)
        built        == BuildResults(tickers, Sorted(results_set), 1, <<>>, <<>>)
    IN  [raised      |-> built.raised,
         results     |-> built.results,
         ids         |-> built.ids,
         accumulated |-> results_set]

\* the indexed part of search_nse_stocks (the body of the try after the
\* tickers test): whether it raised, results[:10] and the ids they came from
IndexedSearch(query, query_lower, json_data) ==
    LET tickers      == Get(json_data, "tickers", <<>>)
        symbol_index == Get(json_data, "symbolIndex", <<>>)
        name_index   == Get(json_data, "nameIndex", <<>>)
        results_set  == Accumulate(query, query_lower, tickers,
                                   symbol_index, name_index)
        built        == BuildResults(tickers, Sorted(results_set), 1, <<>>, <<>>)
    IN  [raised      |-> built.raised,
         results     |-> Take(built.results, MaxResults),
         ids         |-> Take(built.ids, MaxResults),
         accumulated |-> results_set]

\* search_nse_stocks with the empty-query test made after the load
search_nse_stocks_LoadFirst(query, st, f, t) ==
    LET query_lower == Strip(Lower(query))
        l     == load_nse_json_data(st.json_data, f)
        after == [st EXCEPT !.json_data = l.json_data]
        fe    == fetch_nse_equity_list(after, f, t)
    IN  IF query = <<>> \/ Len(Strip(query)) < 1
        THEN [ret |-> <<>>, st |-> after, path |-> "empty", ids |-> <<>>,
          accumulated |-> {},
              loads |-> 1]
        ELSE IF ~Truthy(l.ret) \/ "tickers" \notin DOMAIN l.ret[1]
        THEN [ret   |-> _search_in_list(query_lower, fe.ret),
              st    |-> fe.st,
              path  |-> "unavailable",
              ids   |-> <<>>,
              accumulated |-> {},
              loads |-> 1 + fe.loads]
        ELSE LET r == IndexedSearch(query, query_lower, l.ret[1])
             IN  IF r.raised
                 THEN [ret   |-> _search_in_list(query_lower, fe.ret),
                       st    |-> fe.st,
                       path  |-> "except",
                       ids   |-> <<>>,
                       accumulated |-> r.accumulated,
                       loads |-> 1 + fe.loads]
                 ELSE [ret   |-> r.results,
                       st    |-> after,
                       path  |-> "indexed",
                       ids   |-> r.ids,
                       accumulated |-> r.accumulated,
                       loads |-> 1]

\* search_nse_stocks(query) at time t in module state st: the list
\* returned, the state left behind, the branch taken, the ticker ids the
\* indexed branch returned entries for, the results_set the three tiers
\* left, and the number of loads made
search_nse_stocks(query, st, f, t) ==
    IF query = <<>> \/ Len(Strip(query)) < 1
    THEN [ret |-> <<>>, st |-> st, path |-> "empty", ids |-> <<>>,
          accumulated |-> {},
          loads |-> 0]
    ELSE
    LET query_lower == Strip(Lower(query))
        l     == load_nse_json_data(st.json_data, f)
        after == [st EXCEPT !.json_data = l.json_data]
        fe    == fetch_nse_equity_list(after, f, t)
    IN  IF ~Truthy(l.ret) \/ "tickers" \notin DOMAIN l.ret[1]
        THEN [ret   |-> _search_in_list(query_lower, fe.ret),
              st    |-> fe.st,
              path  |-> "unavailable",
              ids   |-> <<>>,
              accumulated |-> {},
              loads |-> 1 + fe.loads]
        ELSE LET r == IndexedSearch(query, query_lower, l.ret[1])
             IN  IF r.raised
                 THEN [ret   |-> _search_in_list(query_lower, fe.ret),
                       st    |-> fe.st,
                       path  |-> "except",
                       ids   |-> <<>>,
                       accumulated |-> r.accumulated,
                       loads |-> 1 + fe.loads]
                 ELSE [ret   |-> r.results,
                       st    |-> after,
                       path  |-> "indexed",
                       ids   |-> r.ids,
                       accumulated |-> r.accumulated,
                       loads |-> 1]

\* get_nse_indices without the default set for an empty list
get_nse_indices_NoDefaults(st, f, t) ==
    LET fe == fetch_nse_equity_list(st, f, t)
    IN  [ret |-> Take(fe.ret, PopularCount), st |-> fe.st, loads |-> fe.loads]

\* get_nse_indices at time t in module state st
get_nse_indices(st, f, t) ==
    LET fe == fetch_nse_equity_list(st, f, t)
    IN  IF fe.ret = <<>>
        THEN [ret |-> get_fallback_stocks, st |-> fe.st, loads |-> fe.loads]
        ELSE [ret |-> Take(fe.ret, PopularCount), st |-> fe.st,
              loads |-> fe.loads]

\* --------------------------------------------------------------- inputs
MaxQueryLen == 2
SmallCount == 3
Beyond == 1
MaxTicks == 1

QueryChars == {"a", "B", " "}
Queries == UNION {[1..n -> QueryChars] : n \in 0..MaxQueryLen}

\* CSV rows: row i has the i-th symbol over A, B in length-then-alphabetic
\* order (A, B, AA, AB, ...) and one of three company names
Letters == <<"A", "B">>
CompanyNames == << <<"A", "b", " ", "L", "t", "d">>,
                   <<"B", "a", " ", "L", "t", "d">>,
                   <<"L", "t", "d">> >>

RECURSIVE SymbolNo(_)
SymbolNo(n) ==
    IF n = 0 THEN <<>>
    ELSE LET d == IF n % 2 = 1 THEN 1 ELSE 2
         IN  Append(SymbolNo((n - d) \div 2), Letters[d])

Row(i) == [symbol |-> SymbolNo(i + 1),
           name   |-> CompanyNames[(i % Len(CompanyNames)) + 1]]

\* n rows in ascending order, in descending order, or with the symbols
\* repeating (the same symbol on several rows)
Orders == {"asc", "desc", "dup"}
Csv(order, n) ==
    [k \in 1..n |->
        IF order = "asc" THEN Row(k - 1)
        ELSE IF order = "desc" THEN Row(n - k)
        ELSE [symbol |-> Row((k - 1) % (Len(CompanyNames) + 1)).symbol,
              name   |-> Row(k - 1).name]]

\* row counts: short files, and files at and beyond each limit of the code
TickerCounts ==
    (0..SmallCount) \cup
    {limit + d : limit \in {MaxResults, MaxAccumulated, PopularCount},
                 d \in 0..Beyond}

Built == {create_search_json(Csv(order, n)) : order \in Orders, n \in TickerCounts}

\* a JSON object without some of its keys
Without(dict, keys) == [k \in DOMAIN dict \ keys |-> dict[k]]

\* ids no ticker has: one past the end, -1, and one before -len(tickers)
BadIds(c) == {Len(c.tickers), 0 - 1, 0 - (Len(c.tickers) + 1)}

\* files whose JSON object is not what the builder wrote: keys missing, or
\* an index entry that references an id outside the ticker list
Damaged(c) ==
    {Without(c, {"symbolIndex"}), Without(c, {"nameIndex"}),
     Without(c, {"symbolIndex", "nameIndex"}), Without(c, {"tickers"}),
     Without(c, DOMAIN c)}
    \cup (IF c.symbolIndex = <<>> THEN {}
          ELSE {[c EXCEPT !.symbolIndex[1].id = bad] : bad \in BadIds(c)})
    \cup (IF c.nameIndex = <<>> THEN {}
          ELSE {[c EXCEPT !.nameIndex[1].ids = Append(@, bad)] : bad \in BadIds(c)})

Catalogs == Built \cup UNION {Damaged(c) : c \in Built}

Files == {[state |-> "absent", data |-> None],
          [state |-> "unparsable", data |-> None]}
         \cup {[state |-> "json", data |-> Some(c)] : c \in Catalogs}

\* -------------------------------------------------------- state machine
St == [json_data |-> _json_data, cache |-> _nse_stocks_cache,
       timestamp |-> _cache_timestamp]

\* search_nse_stocks calls in progress on the worker threads of the server,
\* each at a line of the function: not called, called (line 155), holding
\* the json_data that line 162 returned, or returned
MaxInflight == 1
Threads == 1..MaxInflight
NotCalled == [pc |-> "none", query |-> <<>>, json_data |-> None,
              ret |-> <<>>, path |-> "none"]
NoQueries == [t \in Threads |-> NotCalled]

NoCall == [op |-> "none", query |-> <<>>, ret |-> <<>>, path |-> "none",
           ids |-> <<>>, accumulated |-> {}, loads |-> 0]

Init ==
    /\ file \in Files
    /\ _json_data = None
    /\ _nse_stocks_cache = None
    /\ _cache_timestamp = None
    /\ now = 0
    /\ call = NoCall
    /\ probe = None
    /\ inflight = NoQueries

SetState(st) ==
    /\ _json_data' = st.json_data
    /\ _nse_stocks_cache' = st.cache
    /\ _cache_timestamp' = st.timestamp

\* Each handler is one step: it runs from an idle state, leaves its return
\* value in call together with what it did (branch, ids, loads), and the
\* caller then takes the value.  \E r \in {e} names the value of e.

\* no call is in progress: the last one has returned to its caller
Idle == call = NoCall

\* a call of load_nse_json_data()
Load ==
    /\ Idle
    /\ \E l \in {load_nse_json_data(_json_data, file)} :
        /\ _json_data' = l.json_data
        /\ call' = [NoCall EXCEPT !.op = "load_nse_json_data", !.loads = 1]
    /\ UNCHANGED <<file, _nse_stocks_cache, _cache_timestamp, now, probe, inflight>>

\* a call of search_nse_stocks(query)
Search ==
    /\ Idle
    /\ \E query \in Queries :
        \E r \in {search_nse_stocks(query, St, file, now)} :
            /\ SetState(r.st)
            /\ call' = [op |-> "search_nse_stocks", query |-> query,
                        ret |-> r.ret, path |-> r.path, ids |-> r.ids,
                        accumulated |-> r.accumulated,
                        loads |-> r.loads]
    /\ UNCHANGED <<file, now, probe, inflight>>

\* a call of get_nse_indices()
Popular ==
    /\ Idle
    /\ \E r \in {get_nse_indices(St, file, now)} :
        /\ SetState(r.st)
        /\ call' = [NoCall EXCEPT !.op = "get_nse_indices", !.ret = r.ret,
                                  !.loads = r.loads]
    /\ UNCHANGED <<file, now, probe, inflight>>

\* the caller takes the value returned
Return ==
    /\ ~Idle
    /\ call' = NoCall
    /\ UNCHANGED <<file, _json_data, _nse_stocks_cache, _cache_timestamp,
                   now, probe, inflight>>

\* time.time() moves on
Tick ==
    /\ now < MaxTicks * CacheTtl
    /\ now' = now + CacheTtl
    /\ UNCHANGED <<file, _json_data, _nse_stocks_cache, _cache_timestamp,
                   call, probe, inflight>>

Next == Load \/ Search \/ Popular \/ Return \/ Tick

Spec == Init /\ [][Next]_vars

\* ------------------------------------------- _search_in_list on its own
\* the stock lists handed to _search_in_list: {symbol, name} pairs of the
\* generated files, the same with keys missing on some stocks, and the
\* default set
Sparse(stocks) ==
    [i \in 1..Len(stocks) |->
        IF i % 3 = 0 THEN [name |-> stocks[i].name]
        ELSE IF i % 3 = 2 THEN [symbol |-> stocks[i].symbol]
        ELSE stocks[i]]

StockLists ==
    {Csv(order, n) : order \in Orders, n \in TickerCounts}
    \cup {Sparse(Csv(order, n)) : order \in Orders, n \in TickerCounts}
    \cup {get_fallback_stocks}

\* the argument is named query_lower: callers pass a lowercased query
LowerQueries == {Lower(q) : q \in Queries}

InitList ==
    /\ file = [state |-> "absent", data |-> None]
    /\ _json_data = None
    /\ _nse_stocks_cache = None
    /\ _cache_timestamp = None
    /\ now = 0
    /\ call = NoCall
    /\ inflight = NoQueries
    /\ \E q \in LowerQueries, stocks \in StockLists :
          probe = Some([query_lower |-> q, nse_stocks |-> stocks,
                        done |-> FALSE, results |-> <<>>, scanned |-> 0])

\* a call of _search_in_list(query_lower, nse_stocks)
SearchInList ==
    /\ probe # None
    /\ ~probe[1].done
    /\ \E r \in {SearchInListRun(probe[1].query_lower, probe[1].nse_stocks)} :
          probe' = Some([probe[1] EXCEPT !.done = TRUE,
                                         !.results = r.results,
                                         !.scanned = r.scanned])
    /\ UNCHANGED <<file, _json_data, _nse_stocks_cache, _cache_timestamp,
                   now, call, inflight>>

NextList == SearchInList

SpecList == InitList /\ [][NextList]_vars

\* ----------------------------------------------------------- properties
\* what the claims speak of, stated without the code's loops

\* a stock matches: the query is a substring of its lowercased symbol or of
\* its lowercased name (a missing key reads as the empty string)
Matches(query_lower, stock) ==
    \/ Contains(query_lower, Lower(Get(stock, "symbol", <<>>)))
    \/ Contains(query_lower, Lower(Get(stock, "name", <<>>)))

MatchPositions(query_lower, stocks) ==
    {i \in 1..Len(stocks) : Matches(query_lower, stocks[i])}

\* the first min(n, number of matches) matching stocks, in list order
FirstMatches(query_lower, stocks, n) ==
    LET pos  == MatchPositions(query_lower, stocks)
        kept == {i \in pos : Cardinality({j \in pos : j <= i}) <= n}
    IN  [k \in 1..Cardinality(kept) |->
            stocks[CHOOSE i \in kept : Cardinality({j \in kept : j <= i}) = k]]

\* where a scan that stops at the n-th match stops
StopsAt(query_lower, stocks, n) ==
    LET pos == MatchPositions(query_lower, stocks)
    IN  IF Cardinality(pos) >= n
        THEN CHOOSE i \in pos : Cardinality({j \in pos : j <= i}) = n
        ELSE Len(stocks)

\* C8: _search_in_list returns exactly the first min(10, number of matches)
\* matching stocks in the order of the list, stops scanning at the tenth
\* match, and returns nothing for an empty list.
C8_FirstTenInOrder ==
    (probe # None /\ probe[1].done) =>
        LET p == probe[1]
        IN  /\ p.results = FirstMatches(p.query_lower, p.nse_stocks, MaxResults)
            /\ p.scanned = StopsAt(p.query_lower, p.nse_stocks, MaxResults)
            /\ (p.nse_stocks = <<>> => p.results = <<>>)

\* C8 witness: a scan that collected ten matches and stopped with stocks,
\* among them a match, still ahead
C8_Witness ==
    /\ probe # None
    /\ probe[1].done
    /\ Len(probe[1].results) = MaxResults
    /\ probe[1].scanned < Len(probe[1].nse_stocks)
    /\ \E i \in MatchPositions(probe[1].query_lower, probe[1].nse_stocks) :
          i > probe[1].scanned

\* C9 as claimed: _search_in_list("", T) is empty for every non-empty T.
C9_EmptyQueryEmptyResult ==
    (probe # None /\ probe[1].done /\ probe[1].query_lower = <<>>
        /\ probe[1].nse_stocks # <<>>) =>
        probe[1].results = <<>>

\* C9 amended: _search_in_list("", T) returns the first min(10, len(T))
\* stocks of T, so it is empty only for the empty list.
C9_EmptyQueryFirstTen ==
    (probe # None /\ probe[1].done /\ probe[1].query_lower = <<>>) =>
        /\ probe[1].results = Take(probe[1].nse_stocks, MaxResults)
        /\ (probe[1].results = <<>> <=> probe[1].nse_stocks = <<>>)

\* C9 witness: the empty query on a list of more than ten stocks
C9_Witness ==
    /\ probe # None
    /\ probe[1].done
    /\ probe[1].query_lower = <<>>
    /\ Len(probe[1].nse_stocks) > MaxResults
    /\ Len(probe[1].results) = MaxResults

\* -------------------------------------------- properties of the service
IsSearch == call.op = "search_nse_stocks"
Blank(query) == Strip(query) = <<>>

\* the catalog file holds a JSON object with a ticker list
HasTickers == file.state = "json" /\ "tickers" \in DOMAIN file.data[1]
FileTickers == file.data[1].tickers
InRange(ticker_id) == 0 <= ticker_id /\ ticker_id < Len(FileTickers)

\* the list position of the ticker that tickers[ticker_id] yields
Position(ticker_id) ==
    IF ticker_id < 0 THEN Len(FileTickers) + ticker_id ELSE ticker_id

\* C1: search_nse_stocks returns at most 10 entries for every non-empty
\* query, whatever the catalog: indexed, without indexes, absent, or with an
\* index entry that makes the indexed search raise.
C1_AtMostTen ==
    (IsSearch /\ ~Blank(call.query)) => Len(call.ret) <= MaxResults

\* C1 witness: the indexed search raised on a bad id and the fallback scan
\* returned a full ten entries
C1_Witness ==
    /\ IsSearch
    /\ call.path = "except"
    /\ Len(call.ret) = MaxResults

\* C2 as claimed: with a ticker list and both indexes, the entries returned
\* are in strictly ascending order of ticker id, none twice.
C2_AscendingIds ==
    (IsSearch /\ call.path = "indexed"
        /\ {"symbolIndex", "nameIndex"} \subseteq DOMAIN file.data[1]) =>
        \A i, j \in DOMAIN call.ids :
            i < j => Position(call.ids[i]) < Position(call.ids[j])

\* C3 as claimed, on the catalogs the builder writes: when the trimmed,
\* uppercased query is a key of symbolIndex with a valid id, the ticker with
\* that id is among the entries returned.
C3_ExactMatchReturned ==
    (IsSearch /\ file.state = "json" /\ file.data[1] \in Built) =>
        \A k \in DOMAIN file.data[1].symbolIndex :
            LET entry == file.data[1].symbolIndex[k]
            IN  (entry.key = Upper(Strip(call.query)) /\ InRange(entry.id)) =>
                    \E i \in DOMAIN call.ids : call.ids[i] = entry.id

\* C4: a search with an empty or whitespace-only query returns the empty
\* list, calls no load and leaves _json_data, _nse_stocks_cache and
\* _cache_timestamp as they were.
C4_BlankQueryTouchesNothing ==
    [][(Idle /\ call'.op = "search_nse_stocks" /\ Blank(call'.query)) =>
          /\ call'.ret = <<>>
          /\ call'.loads = 0
          /\ UNCHANGED <<_json_data, _nse_stocks_cache, _cache_timestamp>>]_vars

\* C4 witness: a whitespace-only query answered while the catalog file was
\* there to load and has not been loaded
C4_Witness ==
    /\ IsSearch
    /\ call.query # <<>>
    /\ Blank(call.query)
    /\ file.state = "json"
    /\ _json_data = None

\* C5 as claimed: with a ticker list but symbolIndex or nameIndex missing,
\* the result is the linear scan of the ticker list.
C5_DegradesToLinear ==
    (IsSearch /\ ~Blank(call.query) /\ HasTickers
        /\ ~({"symbolIndex", "nameIndex"} \subseteq DOMAIN file.data[1])) =>
        call.ret = _search_in_list(Strip(Lower(call.query)), Pairs(FileTickers))

\* the loader has no catalog to give: the file is absent or does not parse
Unavailable == file.state \in {"absent", "unparsable"}

\* C6 as claimed: when the loader returns None every search is empty.
C6_UnavailableEmpty ==
    (IsSearch /\ Unavailable) => call.ret = <<>>

\* C6 amended: when the loader returns None, a non-blank search returns the
\* first min(10, matches) entries of the default set that match the
\* lowercased trimmed query, in the order of the default set.
C6_UnavailableSearchesDefaults ==
    (IsSearch /\ Unavailable) =>
        /\ _json_data = None
        /\ call.ret = IF Blank(call.query) THEN <<>>
                      ELSE FirstMatches(Strip(Lower(call.query)),
                                        get_fallback_stocks, MaxResults)

\* C6 witness: no catalog file, and a search that returned default entries
C6_Witness ==
    /\ IsSearch
    /\ file.state = "absent"
    /\ call.path = "unavailable"
    /\ call.ret # <<>>
    /\ \A i \in DOMAIN call.ret :
          \E j \in DOMAIN get_fallback_stocks : call.ret[i] = get_fallback_stocks[j]

\* C7: get_nse_indices returns the {symbol, name} pairs of the first 25
\* tickers of the catalog in catalog order when the catalog has a non-empty
\* ticker list, and the default set otherwise; the value depends on the
\* catalog alone, so repeated calls agree.
C7_PopularFirst25OrDefaults ==
    (call.op = "get_nse_indices") =>
        IF HasTickers /\ FileTickers # <<>>
        THEN /\ Len(call.ret) = IF Len(FileTickers) < PopularCount
                                THEN Len(FileTickers) ELSE PopularCount
             /\ \A i \in DOMAIN call.ret :
                   call.ret[i] = [symbol |-> FileTickers[i].symbol,
                                  name   |-> FileTickers[i].name]
        ELSE call.ret = get_fallback_stocks

\* C7 witness: a repeated call, answered from the cache, on a catalog of
\* more than 25 tickers
C7_Witness ==
    /\ call.op = "get_nse_indices"
    /\ call.loads = 0
    /\ HasTickers
    /\ Len(FileTickers) > PopularCount
    /\ Len(call.ret) = PopularCount

\* the catalog with every index reference to a missing ticker taken out
Clean(c) ==
    LET ok(id) == 0 <= id /\ id < Len(c.tickers)
    IN  [c EXCEPT
           !.symbolIndex = SelectSeq(@, LAMBDA entry : ok(entry.id)),
           !.nameIndex = [k \in DOMAIN @ |->
                            [@[k] EXCEPT !.ids = SelectSeq(@, ok)]]]

ReferencesMissingTicker(c) ==
    \/ \E k \in DOMAIN c.symbolIndex : ~InRange(c.symbolIndex[k].id)
    \/ \E k \in DOMAIN c.nameIndex :
          \E j \in DOMAIN c.nameIndex[k].ids : ~InRange(c.nameIndex[k].ids[j])

\* C10 as claimed: an index reference to an id outside 0..len(tickers)-1 is
\* skipped: no entry returned comes from such an id, and the result is the
\* one the search gives with the reference taken out of the index.
C10_BadIdSkipped ==
    (IsSearch /\ ~Blank(call.query) /\ HasTickers
        /\ {"symbolIndex", "nameIndex"} \subseteq DOMAIN file.data[1]
        /\ ReferencesMissingTicker(file.data[1])) =>
        /\ \A i \in DOMAIN call.ids : InRange(call.ids[i])
        /\ call.ret =
             search_nse_stocks(call.query,
                 [json_data |-> None, cache |-> None, timestamp |-> None],
                 [state |-> "json", data |-> Some(Clean(file.data[1]))],
                 now).ret

\* C11 as claimed, on the catalogs the builder writes: the accumulated id
\* set never holds more than 20 ids in tiers 2 and 3 (it only grows, so its
\* final size is its largest), and
\* once the scan of symbolIndex has left 20 ids in it the scan of nameIndex
\* adds none.
C11_NeverOverTwenty ==
    (IsSearch /\ call.path = "indexed" /\ file.data[1] \in Built) =>
        LET c == file.data[1]
            after_symbols ==
                ScanSymbols(Strip(Lower(call.query)),
                            Get(c, "symbolIndex", <<>>), 1,
                            ExactMatch(call.query, Get(c, "tickers", <<>>),
                                       Get(c, "symbolIndex", <<>>)))
        IN  /\ Cardinality(call.accumulated) <= MaxAccumulated
            /\ (Cardinality(after_symbols) >= MaxAccumulated =>
                    call.accumulated = after_symbols)

\* ------------------------------- searches racing with the catalog load
\* search_nse_stocks from line 164 on, for the json_data that its call of
\* load_nse_json_data (line 162) returned: the module globals are read
\* again only inside fetch_nse_equity_list
SearchAfterLoad(query, json_data, st, f, t) ==
    LET query_lower == Strip(Lower(query))
        fe == fetch_nse_equity_list(st, f, t)
    IN  IF ~Truthy(json_data) \/ "tickers" \notin DOMAIN json_data[1]
        THEN [ret  |-> _search_in_list(query_lower, fe.ret),
              st   |-> fe.st,
              path |-> "unavailable"]
        ELSE LET r == IndexedSearch(query, query_lower, json_data[1])
             IN  IF r.raised
                 THEN [ret  |-> _search_in_list(query_lower, fe.ret),
                       st   |-> fe.st,
                       path |-> "except"]
                 ELSE [ret |-> r.results, st |-> st, path |-> "indexed"]

InitRace ==
    /\ file \in {[state |-> "absent", data |-> None]}
                \cup {[state |-> "json", data |-> Some(c)] : c \in Built}
    /\ _json_data = None
    /\ _nse_stocks_cache = None
    /\ _cache_timestamp = None
    /\ now = 0
    /\ call = NoCall
    /\ probe = None
    /\ inflight = NoQueries

\* create_search_json.py is run and writes nse_tickers_search.json
CreateSearchJson ==
    /\ file.state = "absent"
    /\ \E c \in Built : file' = [state |-> "json", data |-> Some(c)]
    /\ UNCHANGED <<_json_data, _nse_stocks_cache, _cache_timestamp, now,
                   call, probe, inflight>>

\* thread t enters search_nse_stocks(query): lines 155-158
SearchCalled(t) ==
    /\ inflight[t].pc = "none"
    /\ \E query \in Queries :
          inflight' = [inflight EXCEPT ![t] =
              IF query = <<>> \/ Len(Strip(query)) < 1
              THEN [NotCalled EXCEPT !.pc = "done", !.query = query,
                                     !.path = "empty"]
              ELSE [NotCalled EXCEPT !.pc = "called", !.query = query]]
    /\ UNCHANGED <<file, _json_data, _nse_stocks_cache, _cache_timestamp,
                   now, call, probe>>

\* thread t runs json_data = load_nse_json_data(): line 162
SearchLoads(t) ==
    /\ inflight[t].pc = "called"
    /\ \E l \in {load_nse_json_data(_json_data, file)} :
          /\ _json_data' = l.json_data
          /\ inflight' = [inflight EXCEPT ![t].pc = "loaded",
                                          ![t].json_data = l.ret]
    /\ UNCHANGED <<file, _nse_stocks_cache, _cache_timestamp, now, call,
                   probe>>

\* thread t runs the rest of search_nse_stocks: lines 164-215
SearchFinishes(t) ==
    /\ inflight[t].pc = "loaded"
    /\ \E r \in {SearchAfterLoad(inflight[t].query, inflight[t].json_data,
                                 St, file, now)} :
          /\ SetState(r.st)
          /\ inflight' = [inflight EXCEPT ![t].pc = "done",
                                          ![t].ret = r.ret,
                                          ![t].path = r.path]
    /\ UNCHANGED <<file, now, call, probe>>

\* the caller of thread t takes the value returned
SearchReturns(t) ==
    /\ inflight[t].pc = "done"
    /\ inflight' = [inflight EXCEPT ![t] = NotCalled]
    /\ UNCHANGED <<file, _json_data, _nse_stocks_cache, _cache_timestamp,
                   now, call, probe>>

NextRace ==
    \/ CreateSearchJson
    \/ Load
    \/ Return
    \/ \E t \in Threads : SearchCalled(t)
    \/ \E t \in Threads : SearchLoads(t)
    \/ \E t \in Threads : SearchFinishes(t)
    \/ \E t \in Threads : SearchReturns(t)

SpecRace == InitRace /\ [][NextRace]_vars

\* what search_nse_stocks(query) returns when no step of anything else
\* falls inside the call: with no catalog file and nothing loaded, and with
\* the catalog of the file loaded
ResultWhenAbsent(query) ==
    search_nse_stocks(query,
        [json_data |-> None, cache |-> None, timestamp |-> None],
        [state |-> "absent", data |-> None], now).ret
ResultWhenLoaded(query) ==
    search_nse_stocks(query,
        [json_data |-> file.data, cache |-> None, timestamp |-> None],
        file, now).ret

\* C12 as claimed: however a catalog load interleaves with a search in
\* progress, the search returns what it returns with the catalog absent for
\* the whole call or what it returns with the catalog loaded for the whole
\* call.
C12_SingleSnapshot ==
    \A t \in Threads :
        inflight[t].pc = "done" =>
            \/ inflight[t].ret = ResultWhenAbsent(inflight[t].query)
            \/ /\ file.state = "json"
               /\ inflight[t].ret = ResultWhenLoaded(inflight[t].query)

====
